---- MODULE Spec2Model ----
(***************************************************************************)
(* The annotation tool of src/app.py: one script run of main() per page   *)
(* load or button press, against two singleton rows of the backing store  *)
(* (the cursor row of STATE_TABLE and the map row of ANNOTATIONS_TABLE).   *)
(* A script run is split at its store accesses: load_state, the second     *)
(* load_annotations, save_annotation's update and save_state's update.     *)
(* The load_annotations of line 250 is not a step: its result is never     *)
(* read before line 373 replaces it.  An update that raises has not        *)
(* changed its row.  The store returns a map row as it was written, keyed  *)
(* by the users' ids.                                                      *)
(***************************************************************************)
EXTENDS Integers, Sequences, FiniteSets, Bags, TLC

\* ---------------------------------------------------------------- bounds
\* catalog sizes drawn by Init of Spec and SpecConc
MaxReports == 2
MaxUsers == 2
\* reports beyond the tutorial offset drawn by InitDefault
MaxExtraReports == 2
\* users drawn by InitConc
MaxConcUsers == 1
\* annotation clicks handled when two sessions interleave
MaxClicks == 2

\* --------------------------------------------------- program constants
\* the report index the tutorial button jumps to
TutorialSkip == 10

AllSessions == {1, 2}

Buttons == {"none", "start", "relevant", "not_relevant"}

AnnotationButtons == {"relevant", "not_relevant"}

\* reports[i]["id"] and users[j]["user_id"]: identities differ from positions
ReportId(i) == 100 + i
UserId(j) == 200 + j

DEFAULT_STATE == [report_id |-> 0, user_id |-> 0, show_tutorial |-> TRUE]

VARIABLES
    total_reports,  \* len(reports)
    total_users,    \* len(users)
    sessions,       \* the operator sessions that exist
    cursor,         \* the row of STATE_TABLE
    data,           \* the "data" field of the row of ANNOTATIONS_TABLE
    pc,             \* per session: position inside main()
    state,          \* per session: main()'s local `state`
    current,        \* per session: positions of current_report, current_user
    annotations,    \* per session: main()'s local `annotations`
    click,          \* per session: the button that triggered the run
    screen,         \* per session: what the last run rendered
    judged,         \* history: the clicks handled through save_state
    saved,          \* history: <<user id, report id>> written by save_annotation
    prev,           \* history: cursor and map at the last cursor write
    tried,          \* history: annotation clicks that failed since then
    retried         \* history: the last handled click had failed before

vars == <<total_reports, total_users, sessions, cursor, data, pc, state,
          current, annotations, click, screen, judged, saved, prev, tried,
          retried>>

catalog == <<total_reports, total_users, sessions>>

\* ------------------------------------------------------------- helpers
Last(s) == s[Len(s)]

UserIds == {UserId(j) : j \in 0..(total_users - 1)}

\* A relevant_reports list is kept up to the order of its elements, as the bag
\* of its elements: the code reads it only with `in`, extends it with append
\* and rebuilds it with list(set(..)), whose order Python leaves open.
NoReports == EmptyBag

\* mutant of LoadAnnotations: the stored map is never used
LoadAnnotationsFresh(d) ==
    [uid \in UserIds |-> NoReports]

\* load_annotations: an empty stored map becomes one empty list per user
LoadAnnotations(d) ==
    IF DOMAIN d = {} THEN [uid \in UserIds |-> NoReports] ELSE d

\* mutant of MarkRelevant: append without the membership test and the set
MarkRelevantAppend(m, uid, rid) ==
    [m EXCEPT ![uid] = m[uid] (+) SetToBag({rid})]

\* the in-memory part of save_annotation: append unless present, then
\* list(set(..))
MarkRelevant(m, uid, rid) ==
    IF ~BagIn(rid, m[uid])
    THEN [m EXCEPT ![uid] = SetToBag(BagToSet(m[uid] (+) SetToBag({rid})))]
    ELSE m

\* mutant of Advance: the wraparound test is off by one
AdvanceLate(st) ==
    LET u == st.user_id + 1 IN
    IF u > total_users
    THEN [st EXCEPT !.user_id = 0, !.report_id = st.report_id + 1]
    ELSE [st EXCEPT !.user_id = u]

\* "Move to the next user or report"
Advance(st) ==
    LET u == st.user_id + 1 IN
    IF u >= total_users
    THEN [st EXCEPT !.user_id = 0, !.report_id = st.report_id + 1]
    ELSE [st EXCEPT !.user_id = u]

\* mutant of TutorialExit: the skip-ahead assignment is missing
TutorialExitNoSkip(st) ==
    [st EXCEPT !.show_tutorial = FALSE]

\* the tutorial button's assignments
TutorialExit(st) ==
    [st EXCEPT !.show_tutorial = FALSE, !.report_id = TutorialSkip]

\* reports[state.report_id] and users[state.user_id] raise IndexError
IndexError(st) ==
    st.report_id >= total_reports \/ st.user_id >= total_users

\* mutant of Render: the report is fetched after the completion check, and
\* that check is off by one
RenderLate(st) ==
    IF st.user_id >= total_users THEN "error"
    ELSE IF st.show_tutorial THEN "tutorial"
    ELSE IF st.report_id > total_reports THEN "complete"
    ELSE "annotate"

\* what one run of main() renders for the loaded state
Render(st) ==
    IF IndexError(st) THEN "error"
    ELSE IF st.show_tutorial THEN "tutorial"
    ELSE IF st.report_id >= total_reports THEN "complete"
    ELSE "annotate"

\* mutant of AfterRender: both annotation buttons record the report
AfterRenderAlwaysMark(scr, b) ==
    IF scr = "tutorial" /\ b = "start" THEN "exit"
    ELSE IF scr = "annotate" /\ b \in AnnotationButtons THEN "mark"
    ELSE "return"

\* what the run does after rendering, given the button that triggered it
AfterRender(scr, b) ==
    IF scr = "tutorial" /\ b = "start" THEN "exit"
    ELSE IF scr = "annotate" /\ b = "relevant" THEN "mark"
    ELSE IF scr = "annotate" /\ b = "not_relevant" THEN "skip"
    ELSE "return"

\* the buttons a rendered page offers, besides reloading the page
Offered(scr) ==
    IF scr = "tutorial" THEN {"start"}
    ELSE IF scr = "annotate" THEN {"relevant", "not_relevant"}
    ELSE {}

\* ---------------------------------------------------------------- Init
NoState == DEFAULT_STATE
NoPair == [report |-> 0, user |-> 0]

InitLocals ==
    /\ data = <<>>
    /\ pc = [s \in AllSessions |-> "idle"]
    /\ state = [s \in AllSessions |-> NoState]
    /\ current = [s \in AllSessions |-> NoPair]
    /\ annotations = [s \in AllSessions |-> <<>>]
    /\ click = [s \in AllSessions |-> "none"]
    /\ screen = [s \in AllSessions |-> "none"]
    /\ judged = <<>>
    /\ saved = {}
    /\ prev = [cursor |-> cursor, data |-> data]
    /\ tried = {}
    /\ retried = FALSE

\* any pre-seeded cursor row within the documented range
Init ==
    /\ total_reports \in 1..MaxReports
    /\ total_users \in 1..MaxUsers
    /\ sessions = {1}
    /\ cursor \in [report_id : 0..total_reports,
                   user_id : 0..(total_users - 1),
                   show_tutorial : BOOLEAN]
    /\ InitLocals

\* the default cursor row
InitDefault ==
    /\ total_reports \in 1..(TutorialSkip + MaxExtraReports)
    /\ total_users \in 1..MaxUsers
    /\ sessions = {1}
    /\ cursor = DEFAULT_STATE
    /\ InitLocals

\* one or two operator sessions on the same rows
InitConc ==
    /\ total_reports \in 1..MaxReports
    /\ total_users \in 1..MaxConcUsers
    /\ sessions \in {{1}, {1, 2}}
    /\ cursor = [report_id |-> 0, user_id |-> 0, show_tutorial |-> FALSE]
    /\ InitLocals

\* ------------------------------------------------------------- actions
\* mutant of LoadState: the state of the session's previous run is reused
LoadStateCached(s) ==
    IF screen[s] = "none" THEN cursor ELSE state[s]

\* load_state: the cursor row, read afresh by every run
LoadState(s) == cursor

\* history only: the annotation click of session s ended without its cursor
\* write, after (annotated) or before the annotation write
Failed(s, annotated) ==
    IF click[s] \in AnnotationButtons
    THEN tried \cup {[button |-> click[s], annotated |-> annotated]}
    ELSE tried

\* A run of main() up to its first write: load_state, the two index
\* expressions, the tutorial branch, the completion check, the buttons.
Begin(s, b) ==
    /\ pc[s] \in {"idle", "rerun"}
    /\ b \in (IF pc[s] = "rerun" THEN {"none"} ELSE {"none"} \cup Offered(screen[s]))
    /\ (b \in AnnotationButtons /\ Cardinality(sessions) > 1)
          => Len(judged) < MaxClicks
    /\ LET st == LoadState(s)
           scr == Render(st)
           todo == AfterRender(scr, b)
       IN
       /\ click' = [click EXCEPT ![s] = b]
       /\ screen' = [screen EXCEPT ![s] = scr]
       /\ IF scr = "error"
          THEN /\ pc' = [pc EXCEPT ![s] = "idle"]
               /\ state' = [state EXCEPT ![s] = st]
               /\ UNCHANGED current
          ELSE /\ current' = [current EXCEPT
                     ![s] = [report |-> st.report_id, user |-> st.user_id]]
               /\ IF todo = "exit"
                  THEN /\ state' = [state EXCEPT ![s] = TutorialExit(st)]
                       /\ pc' = [pc EXCEPT ![s] = "save_state"]
                  ELSE IF todo = "mark"
                  THEN /\ state' = [state EXCEPT ![s] = st]
                       /\ pc' = [pc EXCEPT ![s] = "load_annotations"]
                  ELSE IF todo = "skip"
                  THEN /\ state' = [state EXCEPT ![s] = Advance(st)]
                       /\ pc' = [pc EXCEPT ![s] = "save_state"]
                  ELSE /\ state' = [state EXCEPT ![s] = st]
                       /\ pc' = [pc EXCEPT ![s] = "idle"]
    /\ UNCHANGED <<catalog, cursor, data, annotations, judged, saved, prev,
                   tried, retried>>

\* load_annotations(users) of the "relevant" branch
LoadAnn(s) ==
    /\ pc[s] = "load_annotations"
    /\ annotations' = [annotations EXCEPT ![s] = LoadAnnotations(data)]
    /\ pc' = [pc EXCEPT ![s] = "save_annotation"]
    /\ UNCHANGED <<catalog, cursor, data, state, current, click, screen,
                   judged, saved, prev, tried, retried>>

\* save_annotation whose update succeeds, then the advance of the cursor
SaveAnnOk(s) ==
    /\ pc[s] = "save_annotation"
    /\ LET m == MarkRelevant(annotations[s], UserId(current[s].user),
                             ReportId(current[s].report))
       IN /\ annotations' = [annotations EXCEPT ![s] = m]
          /\ data' = m
    /\ saved' = saved \cup
                  {<<UserId(current[s].user), ReportId(current[s].report)>>}
    /\ state' = [state EXCEPT ![s] = Advance(state[s])]
    /\ pc' = [pc EXCEPT ![s] = "save_state"]
    /\ UNCHANGED <<catalog, cursor, current, click, screen, judged, prev,
                   tried, retried>>

\* save_annotation whose update raises: the run ends, the page keeps its buttons
SaveAnnFail(s) ==
    /\ pc[s] = "save_annotation"
    /\ pc' = [pc EXCEPT ![s] = "idle"]
    /\ tried' = Failed(s, FALSE)
    /\ UNCHANGED <<catalog, cursor, data, state, current, annotations, click,
                   screen, judged, saved, prev, retried>>

\* save_state whose update succeeds, then st.rerun()
SaveStateOk(s) ==
    /\ pc[s] = "save_state"
    /\ cursor' = state[s]
    /\ pc' = [pc EXCEPT ![s] = "rerun"]
    /\ IF click[s] = "start"
       THEN UNCHANGED judged
       ELSE judged' = Append(judged, [report |-> current[s].report,
                                      user |-> current[s].user,
                                      relevant |-> click[s] = "relevant"])
    /\ prev' = [cursor |-> state[s], data |-> data]
    /\ retried' = (click[s] \in AnnotationButtons /\ tried # {})
    /\ tried' = {}
    /\ UNCHANGED <<catalog, data, state, current, annotations, click, screen,
                   saved>>

\* save_state whose update raises: the run ends, the page keeps its buttons
SaveStateFail(s) ==
    /\ pc[s] = "save_state"
    /\ pc' = [pc EXCEPT ![s] = "idle"]
    /\ tried' = Failed(s, click[s] = "relevant")
    /\ UNCHANGED <<catalog, cursor, data, state, current, annotations, click,
                   screen, judged, saved, prev, retried>>

\* the process stops in the middle of a run; the page is gone
Stop(s) ==
    /\ pc[s] # "idle"
    /\ pc' = [pc EXCEPT ![s] = "idle"]
    /\ screen' = [screen EXCEPT ![s] = "none"]
    /\ tried' = IF pc[s] = "rerun" THEN tried
                ELSE Failed(s, click[s] = "relevant" /\ pc[s] = "save_state")
    /\ UNCHANGED <<catalog, cursor, data, state, current, annotations, click,
                   judged, saved, prev, retried>>

Next ==
    \/ \E s \in sessions, b \in Buttons : Begin(s, b)
    \/ \E s \in sessions : LoadAnn(s)
    \/ \E s \in sessions : SaveAnnOk(s)
    \/ \E s \in sessions : SaveAnnFail(s)
    \/ \E s \in sessions : SaveStateOk(s)
    \/ \E s \in sessions : SaveStateFail(s)
    \/ \E s \in sessions : Stop(s)

Spec == Init /\ [][Next]_vars

SpecDefault == InitDefault /\ [][Next]_vars

SpecConc == InitConc /\ [][Next]_vars

\* ------------------------------------------------- the cursor's states
Tutorial(c) == c.show_tutorial
Annotating(c) == ~c.show_tutorial /\ c.report_id < total_reports
Complete(c) == ~c.show_tutorial /\ c.report_id >= total_reports

PairOf(c) == [report |-> c.report_id, user |-> c.user_id]

\* position of a pair in the row-major walk over reports x users
Linear(p) == p.report * total_users + p.user

NoDuplicates(m) ==
    \A uid \in DOMAIN m : \A rid \in BagToSet(m[uid]) : CopiesIn(rid, m[uid]) = 1

\* session s finishes save_state successfully in this step
Commits(s) == pc[s] = "save_state" /\ pc'[s] = "rerun"

\* session s finishes save_annotation successfully in this step
Annotates(s) == pc[s] = "save_annotation" /\ pc'[s] = "save_state"

\* ------------------------------------------------------------------ C1
\* C1: a render cycle that loaded a cursor with show_tutorial = false and
\* report_index = total_reports ends on the completion page, whatever its
\* user_index.
C1_CompleteAtBoundary ==
    \A s \in sessions :
        (/\ pc[s] = "idle"
         /\ click[s] = "none"
         /\ screen[s] # "none"
         /\ ~state[s].show_tutorial
         /\ state[s].report_id = total_reports)
        => screen[s] = "complete"

\* ------------------------------------------------------------------ C2
\* C2: from the default cursor the persisted cursor always satisfies
\* 0 <= report_index <= total_reports, and 0 <= user_index < total_users while
\* report_index < total_reports.
C2_CursorInRange ==
    /\ 0 <= cursor.report_id
    /\ cursor.report_id <= total_reports
    /\ 0 <= cursor.user_id
    /\ cursor.report_id < total_reports => cursor.user_id < total_users

\* ------------------------------------------------------------------ C3
\* C3 as stated: from the default cursor the handled clicks walk the whole of
\* reports x users in row-major order from pair (0, 0), and the cursor is
\* complete only after every pair has been judged.
C3_AllPairsRowMajor ==
    /\ \A i \in 1..Len(judged) : Linear(judged[i]) = i - 1
    /\ Complete(cursor) => Len(judged) = total_reports * total_users

\* the pairs the walk covers once the tutorial exit has skipped TutorialSkip
\* reports
PairsAfterSkip ==
    IF total_reports > TutorialSkip
    THEN (total_reports - TutorialSkip) * total_users
    ELSE 0

\* C3 as amended: from the default cursor no pair of the reports 0..9 is ever
\* judged; the handled clicks walk the pairs of the reports from index 10 on,
\* each exactly once, in row-major order, and the cursor is complete only after
\* the last of them has been judged.
C3_PairsAfterSkipRowMajor ==
    /\ \A i \in 1..Len(judged) :
          Linear(judged[i]) = TutorialSkip * total_users + i - 1
    /\ Annotating(cursor) =>
          Linear(PairOf(cursor)) = TutorialSkip * total_users + Len(judged)
    /\ Complete(cursor) => Len(judged) = PairsAfterSkip
    /\ Tutorial(cursor) => judged = <<>>

C3_Witness ==
    /\ cursor = [report_id |-> total_reports, user_id |-> 0,
                 show_tutorial |-> FALSE]
    /\ total_users = 2
    /\ Len(judged) = 2 * total_users

\* ------------------------------------------------------------------ C4
\* what one fully successful click b on pair p leaves in the map row d
OneClick(d, b, p) ==
    IF b = "relevant"
    THEN MarkRelevant(LoadAnnotations(d), UserId(p.user), ReportId(p.report))
    ELSE d

\* C4: when the handling of an annotation click ends early (a save fails, or
\* the process stops), the cursor row is still the last one written and the
\* next render shows that same pair; when the same click is repeated until its
\* cursor write succeeds, cursor and map are what one successful click on the
\* last written cursor and map gives: one advance, no duplicate report id.
C4_RetryIsOneClick ==
    /\ [][\A s \in sessions :
            (pc[s] \in {"load_annotations", "save_annotation", "save_state"}
             /\ pc'[s] = "idle")
            => (cursor' = cursor /\ cursor = prev.cursor)]_vars
    /\ [][\A s \in sessions :
            (pc[s] = "idle" /\ tried # {})
            => (screen'[s] = "annotate" /\ current'[s] = PairOf(prev.cursor))]_vars
    /\ [][\A s \in sessions :
            (/\ Commits(s)
             /\ click[s] \in AnnotationButtons
             /\ \A f \in tried : f.button = click[s])
            => (/\ cursor' = Advance(prev.cursor)
                /\ data' = OneClick(prev.data, click[s], PairOf(prev.cursor))
                /\ NoDuplicates(data'))]_vars

\* a "relevant" click whose annotation was written and whose cursor write was
\* lost has been repeated and handled
C4_Witness ==
    /\ retried
    /\ tried = {}
    /\ pc[1] = "rerun"
    /\ click[1] = "relevant"
    /\ Last(judged).relevant
    /\ <<UserId(Last(judged).user), ReportId(Last(judged).report)>> \in saved
    /\ Len(judged) = 2

\* ------------------------------------------------------------------ C5
\* C5: the tutorial exit, applied to a cursor with show_tutorial = true, writes
\* show_tutorial = false and report_index = 10, keeps user_index, and takes the
\* cursor from TUTORIAL to ANNOTATING.
C5_TutorialExit ==
    [][\A s \in sessions :
         (Commits(s) /\ click[s] = "start")
         => (/\ Tutorial(cursor)
             /\ cursor' = [report_id |-> TutorialSkip,
                           user_id |-> cursor.user_id,
                           show_tutorial |-> FALSE]
             /\ Annotating(cursor'))]_vars

\* ------------------------------------------------------------------ C6
\* C6: once the cursor row is COMPLETE, no step writes the cursor row or the
\* map row again.
C6_CompleteTerminal ==
    [][Complete(cursor) => (cursor' = cursor /\ data' = data)]_vars

\* a page has been rendered from a COMPLETE cursor that the clicks led to
C6_Witness ==
    /\ Complete(cursor)
    /\ Len(judged) > 0
    /\ pc[1] = "idle"
    /\ screen[1] # "none"
    /\ state[1] = cursor

\* ------------------------------------------------------------------ C7
\* C7: a handled annotation click on a cursor with 0 <= user_index <
\* total_users adds 1 to user_index and keeps report_index when user_index <
\* total_users - 1, and otherwise sets user_index to 0 and adds 1 to
\* report_index; show_tutorial is kept, and total_reports plays no part.
C7_AdvanceStep ==
    [][\A s \in sessions :
         (Commits(s) /\ click[s] \in AnnotationButtons)
         => (/\ 0 <= cursor.user_id /\ cursor.user_id < total_users
             /\ cursor.user_id < total_users - 1 =>
                   (/\ cursor'.user_id = cursor.user_id + 1
                    /\ cursor'.report_id = cursor.report_id)
             /\ cursor.user_id = total_users - 1 =>
                   (/\ cursor'.user_id = 0
                    /\ cursor'.report_id = cursor.report_id + 1)
             /\ cursor'.show_tutorial = cursor.show_tutorial)]_vars

\* both cases have happened, the wraparound onto report_index = total_reports
C7_Witness ==
    /\ Len(judged) >= 2
    /\ judged[Len(judged) - 1].user = 0
    /\ Last(judged).user = 1
    /\ Last(judged).report = judged[Len(judged) - 1].report
    /\ cursor.user_id = 0
    /\ cursor.report_id = total_reports

\* ------------------------------------------------------------------ C8
\* C8: on every map the program holds, for every known user and report,
\* mark_relevant applied twice gives the map that applying it once gives, with
\* the report id exactly once in that user's list; no list of the map row ever
\* holds a duplicate.
C8_MarkRelevantIdempotent ==
    /\ NoDuplicates(data)
    /\ \A j \in 0..(total_users - 1), i \in 0..(total_reports - 1) :
          LET once == MarkRelevant(LoadAnnotations(data), UserId(j), ReportId(i))
          IN /\ MarkRelevant(once, UserId(j), ReportId(i)) = once
             /\ CopiesIn(ReportId(i), once[UserId(j)]) = 1

\* save_annotation has run a second time with the user and report it already
\* wrote
C8_Witness ==
    /\ pc[1] = "save_state"
    /\ click[1] = "relevant"
    /\ [button |-> "relevant", annotated |-> TRUE] \in tried
    /\ CopiesIn(ReportId(current[1].report), data[UserId(current[1].user)]) = 1

\* ------------------------------------------------------------------ C9
\* the relevant set of user uid in the map row d
RelevantSet(d, uid) == BagToSet(LoadAnnotations(d)[uid])

\* C9: handling "not relevant" never writes the map row and only advances the
\* cursor; handling "relevant" adds the id of the report at report_index to the
\* set of the user at user_index and changes no other user's set. From
\* (0,0,false) with two users, "relevant" then "not relevant" gives (0,1,false)
\* and then (1,0,false), with report 0's id in user 0's set and user 1's set
\* empty (no "relevant" having been tried on the second pair).
C9_ClickFrame ==
    /\ [][\A s \in sessions :
            (click[s] = "not_relevant" /\ pc[s] \notin {"idle", "rerun"})
            => (/\ data' = data
                /\ pc[s] = "save_state"
                /\ Commits(s) => cursor' = Advance(cursor))]_vars
    /\ [][\A s \in sessions :
            Annotates(s)
            => (/\ click[s] = "relevant"
                /\ Annotating(cursor)
                /\ cursor' = cursor
                /\ RelevantSet(data', UserId(cursor.user_id)) =
                      RelevantSet(data, UserId(cursor.user_id))
                          \cup {ReportId(cursor.report_id)}
                /\ \A uid \in UserIds \ {UserId(cursor.user_id)} :
                      RelevantSet(data', uid) = RelevantSet(data, uid))]_vars
    /\ []((/\ total_users = 2
           /\ Len(judged) >= 1
           /\ judged[1] = [report |-> 0, user |-> 0, relevant |-> TRUE])
          => (/\ ReportId(0) \in RelevantSet(data, UserId(0))
              /\ Len(judged) = 1 =>
                    cursor = [report_id |-> 0, user_id |-> 1,
                              show_tutorial |-> FALSE]
              /\ (/\ Len(judged) = 2
                  /\ ~judged[2].relevant
                  /\ <<UserId(1), ReportId(0)>> \notin saved) =>
                    (/\ cursor = [report_id |-> 1, user_id |-> 0,
                                  show_tutorial |-> FALSE]
                     /\ RelevantSet(data, UserId(1)) = {})))

C9_Witness ==
    /\ total_users = 2
    /\ judged = <<[report |-> 0, user |-> 0, relevant |-> TRUE],
                  [report |-> 0, user |-> 1, relevant |-> FALSE]>>
    /\ cursor = [report_id |-> 1, user_id |-> 0, show_tutorial |-> FALSE]
    /\ RelevantSet(data, UserId(0)) = {ReportId(0)}
    /\ RelevantSet(data, UserId(1)) = {}
    /\ saved = {<<UserId(0), ReportId(0)>>}

\* ----------------------------------------------------------------- C10
\* a report id that save_annotation wrote for a user is gone from the map row
LostUpdate ==
    \E p \in saved : p[2] \notin RelevantSet(data, p[1])

\* C10: with a single session no report id written by save_annotation is ever
\* missing from the map row afterwards; with two sessions interleaving their
\* load and save of the whole map, such a lost update is reachable (C10_Witness).
C10_SingleSessionKeepsSaved ==
    Cardinality(sessions) = 1 => ~LostUpdate

C10_Witness ==
    /\ sessions = {1, 2}
    /\ LostUpdate

====
